---- MODULE Spec2Model ----
(***************************************************************************)
(* Model of src/src/tower_msgs.rs: the watchtower custom messages, the     *)
(* dispatcher handle_tower_message and the TowerMessageHandler with its    *)
(* Mutex-guarded queue msg_q of (PublicKey, TowerMessage) entries.         *)
(*                                                                         *)
(* Threads call handle_custom_message, send_message and                    *)
(* get_and_clear_pending_msg on one shared handler.  Each call is split    *)
(* at the points where another thread can be scheduled: entering the       *)
(* call, msg_q.lock().unwrap(), and the work done under the guard.         *)
(***************************************************************************)
EXTENDS Integers, Naturals, Sequences, FiniteSets, Bags, TLC

(***************************************************************************)
(* Bounds of the model.                                                    *)
(***************************************************************************)
\* enqueuing calls (handle_custom_message, send_message) started in a run;
\* get_and_clear_pending_msg may be called any number of times
MaxCalls == 2

(***************************************************************************)
(* Fixed-width integers.  A u32 is kept as its two 16-bit halves           *)
(* [hi, lo], value hi * 2^16 + lo, and multiplied limb by limb, so that    *)
(* the full 64-bit product and its low 32 bits are both exact.             *)
(***************************************************************************)
Half == 2^16
Byte == 2^8

U32(h, l) == [hi |-> h, lo |-> l]
Zero32 == U32(0, 0)

\* the exact product of two 16-bit numbers, as a u32
Mul16(x, y) ==
  LET xh == x \div Byte  xl == x % Byte
      yh == y \div Byte  yl == y % Byte
      cross == xh * yl + xl * yh
      low == xl * yl + (cross % Byte) * Byte
  IN U32(xh * yh + cross \div Byte + low \div Half, low % Half)

\* the exact product of two u32, as the pair of its high and low 32 bits
MulFull(a, b) ==
  LET p0 == Mul16(a.lo, b.lo)
      p1 == Mul16(a.hi, b.lo)
      p2 == Mul16(a.lo, b.hi)
      p3 == Mul16(a.hi, b.hi)
      t1 == p0.hi + p1.lo + p2.lo
      t2 == p1.hi + p2.hi + p3.lo + t1 \div Half
  IN [high |-> U32(p3.hi + t2 \div Half, t2 % Half),
      low  |-> U32(t1 % Half, p0.lo)]

MulOverflows(a, b) == MulFull(a, b).high # Zero32
\* u32 * u32 with overflow checks off: the low 32 bits of the product
WrappingMul(a, b) == MulFull(a, b).low

(***************************************************************************)
(* Messages.                                                               *)
(***************************************************************************)
Peers == {"pk1", "pk2"}

Register(pk, slots, period) ==
  [variant |-> "Register", pubkey |-> pk,
   appointment_slots |-> slots, subscription_period |-> period]

SubscriptionDetails(size, amount) ==
  [variant |-> "SubscriptionDetails",
   appointment_max_size |-> size, amount_msat |-> amount]

\* the messages the handler's calls are made with: a Register of 10 slots
\* for 3 periods, a Register of 2^16 slots for 2^16 periods (the product
\* does not fit a u32) and a SubscriptionDetails no dispatch produces
Msgs ==
  {Register("pk1", U32(0, 10), U32(0, 3)),
   Register("pk1", U32(1, 0), U32(1, 0)),
   SubscriptionDetails(7, U32(1, 0))}

\* the messages handle_tower_message alone is applied to
U32Values == {U32(0, 0), U32(0, 1), U32(0, 3), U32(0, 10), U32(0, 65535),
              U32(1, 0), U32(65535, 65535)}
U16Values == {0, 30, 65535}
DispatchMsgs ==
  {Register(pk, s, p) : pk \in Peers, s \in U32Values, p \in U32Values}
  \cup {SubscriptionDetails(z, a) : z \in U16Values, a \in U32Values}

(***************************************************************************)
(* handle_tower_message: the dispatcher.  checks is the build's            *)
(* overflow-checks setting: with it on, an overflowing `*` panics, with    *)
(* it off it wraps.                                                        *)
(***************************************************************************)
Ok(v) == [kind |-> "Ok", val |-> v]
Err(e) == [kind |-> "Err", val |-> e]
Panic == [kind |-> "Panic", val |-> "attempt to multiply with overflow"]

UnexpectedSubscriptionDetails ==
  [err |-> "A SubscriptionDetails message wasn't expected!",
   action |-> "SendWarningMessage",
   channel_id |-> 0,
   data |-> "You sent me a SubscriptionDetails message but I didn't register!",
   log_level |-> "Debug"]

appointment_max_size == 30

\* a dispatcher whose error tells the transport to disconnect the peer
handle_tower_message_disconnects(msg, checks) ==
  IF msg.variant = "Register"
  THEN IF checks /\ MulOverflows(msg.appointment_slots, msg.subscription_period)
       THEN Panic
       ELSE Ok(SubscriptionDetails(appointment_max_size,
                 WrappingMul(msg.appointment_slots, msg.subscription_period)))
  ELSE Err([UnexpectedSubscriptionDetails EXCEPT !.action = "DisconnectPeer"])

\* a dispatcher that quotes nothing to the key pk2
handle_tower_message_prices_by_key(msg, checks) ==
  IF msg.variant = "Register"
  THEN IF checks /\ MulOverflows(msg.appointment_slots, msg.subscription_period)
       THEN Panic
       ELSE Ok(SubscriptionDetails(appointment_max_size,
                 IF msg.pubkey = "pk2" THEN Zero32
                 ELSE WrappingMul(msg.appointment_slots,
                                  msg.subscription_period)))
  ELSE Err(UnexpectedSubscriptionDetails)

handle_tower_message(msg, checks) ==
  IF msg.variant = "Register"
  THEN IF checks /\ MulOverflows(msg.appointment_slots, msg.subscription_period)
       THEN Panic
       ELSE Ok(SubscriptionDetails(appointment_max_size,
                 WrappingMul(msg.appointment_slots, msg.subscription_period)))
  ELSE Err(UnexpectedSubscriptionDetails)

(***************************************************************************)
(* State.                                                                  *)
(***************************************************************************)
Producers == {"t1", "t2"}
Consumer == "c"
Threads == Producers \cup {Consumer}
NoThread == "none"

VARIABLES
  overflow_checks, \* the build: TRUE when `*` panics on overflow
  msg_q,           \* the Vec inside the Mutex
  lock,            \* the thread holding the MutexGuard, or NoThread
  poisoned,        \* the Mutex's poison flag
  pc,              \* where each thread is
  cur,             \* the arguments of each thread's call in progress
  ret,             \* what each thread's last completed call returned
  ncalls,          \* enqueuing calls started so far
  enqueued,        \* history: every entry pushed, in push order
  drained,         \* history: the results of all drains, one after the other
  snap,            \* history: msg_q when the drain in progress took the lock
  d_msg,           \* the message handle_tower_message alone is applied to
  d_ret,           \* its result
  c_pc,            \* codec alone: "new", "written", "tampered", "read"
  c_msg,           \* the message written
  c_type,          \* the message type handed to read
  c_buf,           \* the bytes handed to read
  c_ret            \* what read returned

hvars == <<msg_q, lock, poisoned, pc, cur, ret, ncalls, enqueued, drained, snap>>
dvars == <<d_msg, d_ret>>
cvars == <<c_pc, c_msg, c_type, c_buf, c_ret>>
vars == <<overflow_checks, hvars, dvars, cvars>>

\* An entry of msg_q.  id names the call that made the entry (the thread and
\* the number of the call); no action reads it.
Entry(peer, msg, id) == [peer |-> peer, msg |-> msg, id |-> id]

NoCall == [op |-> "none"]
NoRet == [kind |-> "None", val |-> "none"]
Unit == [kind |-> "Unit", val |-> "none"]
Vec(v) == [kind |-> "Vec", val |-> v]
PoisonPanic == [kind |-> "Panic", val |-> "PoisonError"]

\* TowerMessageHandler::new
new ==
  /\ msg_q = << >>
  /\ lock = NoThread
  /\ poisoned = FALSE

NoCallsYet ==
  /\ pc = [t \in Threads |-> "idle"]
  /\ cur = [t \in Threads |-> NoCall]
  /\ ret = [t \in Threads |-> NoRet]
  /\ ncalls = 0
  /\ enqueued = << >>
  /\ drained = << >>
  /\ snap = << >>

\* nothing written or read yet
NoCodecYet ==
  /\ c_pc = "new"
  /\ c_msg = NoCall
  /\ c_type = 0
  /\ c_buf = << >>
  /\ c_ret = NoRet

Init ==
  /\ overflow_checks \in BOOLEAN
  /\ new
  /\ NoCallsYet
  /\ d_msg = NoCall
  /\ d_ret = NoRet
  /\ NoCodecYet

(***************************************************************************)
(* The Mutex.                                                              *)
(***************************************************************************)
\* a lock that does not exclude: t gets the guard whoever holds it
LockUnwrapNotExclusive(t) ==
  /\ ~poisoned
  /\ lock' = t

\* msg_q.lock().unwrap() succeeding: t waits until no thread holds the guard
LockUnwrap(t) ==
  /\ lock = NoThread
  /\ ~poisoned
  /\ lock' = t

\* the guard is dropped at the end of the statement or on an early return
Unlock(t) ==
  /\ lock = t
  /\ lock' = NoThread

\* msg_q.lock().unwrap() on a poisoned Mutex: lock() returns Err, unwrap
\* panics and the guard inside the error is dropped
LockPoisoned(t) ==
  /\ pc[t] = "lock"
  /\ lock = NoThread
  /\ poisoned
  /\ pc' = [pc EXCEPT ![t] = "panicked"]
  /\ ret' = [ret EXCEPT ![t] = PoisonPanic]
  /\ UNCHANGED <<overflow_checks, msg_q, lock, poisoned, cur, ncalls,
                 enqueued, drained, snap, dvars, cvars>>

(***************************************************************************)
(* Entering a call.                                                        *)
(***************************************************************************)
Call(t, op, msg, peer) ==
  /\ pc[t] = "idle"
  /\ ncalls < MaxCalls
  /\ ncalls' = ncalls + 1
  /\ cur' = [cur EXCEPT ![t] = [op |-> op, msg |-> msg, peer |-> peer,
                                id |-> <<t, ncalls + 1>>]]
  /\ ret' = [ret EXCEPT ![t] = NoRet]
  /\ pc' = [pc EXCEPT ![t] = "lock"]
  /\ UNCHANGED <<overflow_checks, msg_q, lock, poisoned, enqueued, drained,
                 snap, dvars, cvars>>

HandleCustomMessageCall(t) ==
  \E msg \in Msgs, sender_node_id \in Peers :
     Call(t, "handle_custom_message", msg, sender_node_id)

SendMessageCall(t) ==
  \E msg \in Msgs, pubkey \in Peers : Call(t, "send_message", msg, pubkey)

GetAndClearCall ==
  /\ pc[Consumer] = "idle"
  /\ cur' = [cur EXCEPT ![Consumer] = [op |-> "get_and_clear_pending_msg"]]
  /\ ret' = [ret EXCEPT ![Consumer] = NoRet]
  /\ pc' = [pc EXCEPT ![Consumer] = "lock"]
  /\ UNCHANGED <<overflow_checks, msg_q, lock, poisoned, ncalls, enqueued,
                 drained, snap, dvars, cvars>>

(***************************************************************************)
(* send_message: self.msg_q.lock().unwrap().push((pubkey.clone(), msg))    *)
(***************************************************************************)
SendMessageLock(t) ==
  /\ pc[t] = "lock"
  /\ cur[t].op = "send_message"
  /\ LockUnwrap(t)
  /\ pc' = [pc EXCEPT ![t] = "push"]
  /\ UNCHANGED <<overflow_checks, msg_q, poisoned, cur, ret, ncalls,
                 enqueued, drained, snap, dvars, cvars>>

\* a send_message that runs the dispatcher on a Register before queueing
send_message_dispatches(pubkey, msg, id) ==
  IF msg.variant = "Register"
  THEN Entry(pubkey, handle_tower_message(msg, FALSE).val, id)
  ELSE Entry(pubkey, msg, id)

\* the entry send_message pushes
send_message(pubkey, msg, id) == Entry(pubkey, msg, id)

\* a push at the front of the Vec
push_front(q, e) == <<e>> \o q

\* Vec::push
push(q, e) == Append(q, e)

SendMessagePush(t) ==
  /\ pc[t] = "push"
  /\ cur[t].op = "send_message"
  /\ LET e == send_message(cur[t].peer, cur[t].msg, cur[t].id) IN
       /\ msg_q' = push(msg_q, e)
       /\ enqueued' = Append(enqueued, e)
  /\ Unlock(t)
  /\ ret' = [ret EXCEPT ![t] = Unit]
  /\ cur' = [cur EXCEPT ![t] = NoCall]
  /\ pc' = [pc EXCEPT ![t] = "idle"]
  /\ UNCHANGED <<overflow_checks, poisoned, ncalls, drained, snap, dvars, cvars>>

(***************************************************************************)
(* handle_custom_message:                                                  *)
(*   Ok(self.msg_q.lock().unwrap()                                         *)
(*       .push((sender_node_id.clone(), Self::handle_tower_message(msg)?)))*)
(* The receiver of push is evaluated before its argument: the guard is     *)
(* taken first, handle_tower_message runs under it, and `?` returns early  *)
(* (dropping the guard) when it fails.                                     *)
(***************************************************************************)
HandleCustomMessageLock(t) ==
  /\ pc[t] = "lock"
  /\ cur[t].op = "handle_custom_message"
  /\ LockUnwrap(t)
  /\ pc' = [pc EXCEPT ![t] = "dispatch"]
  /\ UNCHANGED <<overflow_checks, msg_q, poisoned, cur, ret, ncalls,
                 enqueued, drained, snap, dvars, cvars>>

\* handle_tower_message(msg) returned Ok(reply): the reply is the argument
\* of the push that follows
HandleCustomMessageDispatchOk(t) ==
  /\ pc[t] = "dispatch"
  /\ LET r == handle_tower_message(cur[t].msg, overflow_checks) IN
       /\ r.kind = "Ok"
       /\ cur' = [cur EXCEPT ![t] = [op |-> cur[t].op, msg |-> cur[t].msg,
                                     peer |-> cur[t].peer, id |-> cur[t].id,
                                     reply |-> r.val]]
  /\ pc' = [pc EXCEPT ![t] = "push"]
  /\ UNCHANGED <<overflow_checks, msg_q, lock, poisoned, ret, ncalls,
                 enqueued, drained, snap, dvars, cvars>>

\* the error is returned after the message itself was pushed
HandleCustomMessageDispatchErrPushes(t) ==
  /\ pc[t] = "dispatch"
  /\ LET r == handle_tower_message(cur[t].msg, overflow_checks)
         e == Entry(cur[t].peer, cur[t].msg, cur[t].id) IN
       /\ r.kind = "Err"
       /\ ret' = [ret EXCEPT ![t] = r]
       /\ msg_q' = Append(msg_q, e)
       /\ enqueued' = Append(enqueued, e)
  /\ Unlock(t)
  /\ cur' = [cur EXCEPT ![t] = NoCall]
  /\ pc' = [pc EXCEPT ![t] = "idle"]
  /\ UNCHANGED <<overflow_checks, poisoned, ncalls, drained, snap, dvars, cvars>>

\* the error is returned with the guard leaked instead of dropped
HandleCustomMessageDispatchErrKeepsLock(t) ==
  /\ pc[t] = "dispatch"
  /\ LET r == handle_tower_message(cur[t].msg, overflow_checks) IN
       /\ r.kind = "Err"
       /\ ret' = [ret EXCEPT ![t] = r]
  /\ cur' = [cur EXCEPT ![t] = NoCall]
  /\ pc' = [pc EXCEPT ![t] = "idle"]
  /\ UNCHANGED <<overflow_checks, msg_q, lock, poisoned, ncalls, enqueued,
                 drained, snap, dvars, cvars>>

\* handle_tower_message(msg) returned Err(e): `?` returns Err(e), nothing
\* is pushed
HandleCustomMessageDispatchErr(t) ==
  /\ pc[t] = "dispatch"
  /\ LET r == handle_tower_message(cur[t].msg, overflow_checks) IN
       /\ r.kind = "Err"
       /\ ret' = [ret EXCEPT ![t] = r]
  /\ Unlock(t)
  /\ cur' = [cur EXCEPT ![t] = NoCall]
  /\ pc' = [pc EXCEPT ![t] = "idle"]
  /\ UNCHANGED <<overflow_checks, msg_q, poisoned, ncalls, enqueued, drained,
                 snap, dvars, cvars>>

\* handle_tower_message(msg) panicked: the guard is dropped while
\* unwinding, which poisons the Mutex
HandleCustomMessageDispatchPanic(t) ==
  /\ pc[t] = "dispatch"
  /\ LET r == handle_tower_message(cur[t].msg, overflow_checks) IN
       /\ r.kind = "Panic"
       /\ ret' = [ret EXCEPT ![t] = r]
  /\ Unlock(t)
  /\ poisoned' = TRUE
  /\ pc' = [pc EXCEPT ![t] = "panicked"]
  /\ UNCHANGED <<overflow_checks, msg_q, cur, ncalls, enqueued, drained,
                 snap, dvars, cvars>>

\* the entry handle_custom_message pushes
handle_custom_message(sender_node_id, reply, id) ==
  Entry(sender_node_id, reply, id)

HandleCustomMessagePush(t) ==
  /\ pc[t] = "push"
  /\ cur[t].op = "handle_custom_message"
  /\ LET e == handle_custom_message(cur[t].peer, cur[t].reply, cur[t].id) IN
       /\ msg_q' = push(msg_q, e)
       /\ enqueued' = Append(enqueued, e)
  /\ Unlock(t)
  /\ ret' = [ret EXCEPT ![t] = Ok("unit")]
  /\ cur' = [cur EXCEPT ![t] = NoCall]
  /\ pc' = [pc EXCEPT ![t] = "idle"]
  /\ UNCHANGED <<overflow_checks, poisoned, ncalls, drained, snap, dvars, cvars>>

(***************************************************************************)
(* get_and_clear_pending_msg:                                              *)
(*   mem::replace(&mut self.msg_q.lock().unwrap(), Vec::new())             *)
(***************************************************************************)
GetAndClearLock ==
  /\ pc[Consumer] = "lock"
  /\ cur[Consumer].op = "get_and_clear_pending_msg"
  /\ LockUnwrap(Consumer)
  /\ snap' = msg_q
  /\ pc' = [pc EXCEPT ![Consumer] = "swap"]
  /\ UNCHANGED <<overflow_checks, msg_q, poisoned, cur, ret, ncalls,
                 enqueued, drained, dvars, cvars>>

\* a drain that returns a copy of the queue and leaves the queue as it was
get_and_clear_keeps(q) == [returned |-> q, left |-> q]

\* mem::replace(dest, Vec::new()): what is returned and what dest is left as
get_and_clear_pending_msg(q) == [returned |-> q, left |-> << >>]

GetAndClearSwap ==
  /\ pc[Consumer] = "swap"
  /\ LET r == get_and_clear_pending_msg(msg_q) IN
       /\ msg_q' = r.left
       /\ ret' = [ret EXCEPT ![Consumer] = Vec(r.returned)]
       /\ drained' = drained \o r.returned
  /\ Unlock(Consumer)
  /\ cur' = [cur EXCEPT ![Consumer] = NoCall]
  /\ pc' = [pc EXCEPT ![Consumer] = "idle"]
  /\ UNCHANGED <<overflow_checks, poisoned, ncalls, enqueued, snap, dvars, cvars>>

(***************************************************************************)
(* The handler shared by two producer threads and one consumer thread.     *)
(***************************************************************************)
Next ==
  \/ \E t \in Producers : HandleCustomMessageCall(t)
  \/ \E t \in Producers : SendMessageCall(t)
  \/ GetAndClearCall
  \/ \E t \in Threads : LockPoisoned(t)
  \/ \E t \in Producers : SendMessageLock(t)
  \/ \E t \in Producers : SendMessagePush(t)
  \/ \E t \in Producers : HandleCustomMessageLock(t)
  \/ \E t \in Producers : HandleCustomMessageDispatchOk(t)
  \/ \E t \in Producers : HandleCustomMessageDispatchErr(t)
  \/ \E t \in Producers : HandleCustomMessageDispatchPanic(t)
  \/ \E t \in Producers : HandleCustomMessagePush(t)
  \/ GetAndClearLock
  \/ GetAndClearSwap

Spec == Init /\ [][Next]_vars

(***************************************************************************)
(* handle_tower_message on its own, over DispatchMsgs and both builds.     *)
(***************************************************************************)
InitDispatch ==
  /\ overflow_checks \in BOOLEAN
  /\ new
  /\ NoCallsYet
  /\ d_msg \in DispatchMsgs
  /\ d_ret = NoRet
  /\ NoCodecYet

DispatchApply ==
  /\ d_ret = NoRet
  /\ d_ret' = handle_tower_message(d_msg, overflow_checks)
  /\ UNCHANGED <<overflow_checks, hvars, d_msg, cvars>>

DispatchAgain ==
  /\ d_ret # NoRet
  /\ d_msg' \in DispatchMsgs
  /\ d_ret' = NoRet
  /\ UNCHANGED <<overflow_checks, hvars, cvars>>

NextDispatch == DispatchApply \/ DispatchAgain

SpecDispatch == InitDispatch /\ [][NextDispatch]_vars

(***************************************************************************)
(* The wire codec.  A buffer is the sequence of bytes left to read; a read *)
(* returns the value with the bytes left after it, or a DecodeError.       *)
(* u16 and u32 are written big-endian; a PublicKey is written as the 33    *)
(* bytes of its compressed point, and 33 bytes read back as a PublicKey    *)
(* only when they are the encoding of a key.                               *)
(***************************************************************************)
RegisterTYPE == 45768
SubscriptionDetailsTYPE == 45770

ROk(v, rest) == [kind |-> "Ok", val |-> v, rest |-> rest]
RErr(e) == [kind |-> "Err", val |-> e]
Some(m) == [some |-> TRUE, msg |-> m]
None == [some |-> FALSE]

Drop(buf, n) == SubSeq(buf, n + 1, Len(buf))

u16_write(v) == <<v \div Byte, v % Byte>>
u32_write(x) == u16_write(x.hi) \o u16_write(x.lo)
PublicKey_write(pk) ==
  IF pk = "pk1" THEN <<2>> \o [i \in 1..32 |-> 17]
                ELSE <<3>> \o [i \in 1..32 |-> 34]

u16_read(buf) ==
  IF Len(buf) < 2 THEN RErr("ShortRead")
  ELSE ROk(buf[1] * Byte + buf[2], Drop(buf, 2))

u32_read(buf) ==
  IF Len(buf) < 4 THEN RErr("ShortRead")
  ELSE ROk(U32(buf[1] * Byte + buf[2], buf[3] * Byte + buf[4]), Drop(buf, 4))

PublicKey_read(buf) ==
  IF Len(buf) < 33 THEN RErr("ShortRead")
  ELSE IF \E pk \in Peers : PublicKey_write(pk) = SubSeq(buf, 1, 33)
       THEN ROk(CHOOSE pk \in Peers : PublicKey_write(pk) = SubSeq(buf, 1, 33),
                Drop(buf, 33))
       ELSE RErr("InvalidValue")

\* a Register read with its two u32 fields in the wrong order
Register_read_swapped(buf) ==
  LET k == PublicKey_read(buf) IN
  IF k.kind = "Err" THEN k ELSE
  LET a == u32_read(k.rest) IN
  IF a.kind = "Err" THEN a ELSE
  LET b == u32_read(a.rest) IN
  IF b.kind = "Err" THEN b ELSE ROk(Register(k.val, b.val, a.val), b.rest)

\* impl Readable for Register
Register_read(buf) ==
  LET k == PublicKey_read(buf) IN
  IF k.kind = "Err" THEN k ELSE
  LET a == u32_read(k.rest) IN
  IF a.kind = "Err" THEN a ELSE
  LET b == u32_read(a.rest) IN
  IF b.kind = "Err" THEN b ELSE ROk(Register(k.val, a.val, b.val), b.rest)

\* impl Writeable for Register
Register_write(m) ==
  PublicKey_write(m.pubkey) \o u32_write(m.appointment_slots)
    \o u32_write(m.subscription_period)

\* impl Readable for SubscriptionDetails
SubscriptionDetails_read(buf) ==
  LET a == u16_read(buf) IN
  IF a.kind = "Err" THEN a ELSE
  LET b == u32_read(a.rest) IN
  IF b.kind = "Err" THEN b ELSE ROk(SubscriptionDetails(a.val, b.val), b.rest)

\* impl Writeable for SubscriptionDetails
SubscriptionDetails_write(m) ==
  u16_write(m.appointment_max_size) \o u32_write(m.amount_msat)

\* a type_id that gives every message the type of Register
type_id_same(m) == RegisterTYPE

\* impl Type for TowerMessage
type_id(m) ==
  IF m.variant = "Register" THEN RegisterTYPE ELSE SubscriptionDetailsTYPE

\* impl Writeable for TowerMessage
TowerMessage_write(m) ==
  IF m.variant = "Register" THEN Register_write(m)
                            ELSE SubscriptionDetails_write(m)

\* a read that takes any type other than SubscriptionDetails for a Register
read_defaults_to_register(message_type, buffer) ==
  IF message_type = SubscriptionDetailsTYPE
  THEN LET r == SubscriptionDetails_read(buffer) IN
       IF r.kind = "Err" THEN r ELSE ROk(Some(r.val), r.rest)
  ELSE LET r == Register_read(buffer) IN
       IF r.kind = "Err" THEN r ELSE ROk(Some(r.val), r.rest)

\* a read that answers "not my message" when decoding fails
read_swallows_errors(message_type, buffer) ==
  IF message_type = RegisterTYPE
  THEN LET r == Register_read(buffer) IN
       IF r.kind = "Err" THEN ROk(None, buffer) ELSE ROk(Some(r.val), r.rest)
  ELSE IF message_type = SubscriptionDetailsTYPE
  THEN LET r == SubscriptionDetails_read(buffer) IN
       IF r.kind = "Err" THEN ROk(None, buffer) ELSE ROk(Some(r.val), r.rest)
  ELSE ROk(None, buffer)

\* CustomMessageReader::read
read(message_type, buffer) ==
  IF message_type = RegisterTYPE
  THEN LET r == Register_read(buffer) IN
       IF r.kind = "Err" THEN r ELSE ROk(Some(r.val), r.rest)
  ELSE IF message_type = SubscriptionDetailsTYPE
  THEN LET r == SubscriptionDetails_read(buffer) IN
       IF r.kind = "Err" THEN r ELSE ROk(Some(r.val), r.rest)
  ELSE ROk(None, buffer)

(***************************************************************************)
(* The codec on its own: a message is written, the bytes and the type may  *)
(* be changed on the way, and read is applied to them.                     *)
(***************************************************************************)
CodecU32Values == {U32(0, 0), U32(0, 10), U32(1, 2), U32(65535, 65535)}
CodecMsgs ==
  {Register(pk, s, p) : pk \in Peers, s \in CodecU32Values,
                        p \in CodecU32Values}
  \cup {SubscriptionDetails(z, a) : z \in U16Values, a \in CodecU32Values}

\* the types read is called with: the two of the messages and others
TypeIds == {RegisterTYPE, SubscriptionDetailsTYPE, 0, 9999, 45769, 65535}

\* what the bytes can become: cut short, followed by another byte, or with
\* a first byte that starts no key
Tampered(buf) ==
  {SubSeq(buf, 1, n) : n \in 0..Len(buf)}
  \cup {buf \o <<0>>}
  \cup {<<4>> \o Drop(buf, 1)}

InitCodec ==
  /\ overflow_checks \in BOOLEAN
  /\ new
  /\ NoCallsYet
  /\ d_msg = NoCall
  /\ d_ret = NoRet
  /\ c_pc = "new"
  /\ c_msg \in CodecMsgs
  /\ c_type = 0
  /\ c_buf = << >>
  /\ c_ret = NoRet

CodecWrite ==
  /\ c_pc = "new"
  /\ c_buf' = TowerMessage_write(c_msg)
  /\ c_type' = type_id(c_msg)
  /\ c_pc' = "written"
  /\ UNCHANGED <<overflow_checks, hvars, dvars, c_msg, c_ret>>

CodecTamper ==
  /\ c_pc = "written"
  /\ c_buf' \in Tampered(c_buf)
  /\ c_type' \in TypeIds
  /\ c_pc' = "tampered"
  /\ UNCHANGED <<overflow_checks, hvars, dvars, c_msg, c_ret>>

CodecRead ==
  /\ c_pc \in {"written", "tampered"}
  /\ c_ret' = read(c_type, c_buf)
  /\ c_pc' = IF c_pc = "written" THEN "read" ELSE "read_tampered"
  /\ UNCHANGED <<overflow_checks, hvars, dvars, c_msg, c_type, c_buf>>

NextCodec == CodecWrite \/ CodecTamper \/ CodecRead

SpecCodec == InitCodec /\ [][NextCodec]_vars

(***************************************************************************)
(* Properties of the queue under concurrent calls.                         *)
(***************************************************************************)
Range(q) == {q[i] : i \in DOMAIN q}
SeqToBag(q) == [e \in Range(q) |-> Cardinality({i \in DOMAIN q : q[i] = e})]
NoRepeat(q) == \A i, j \in DOMAIN q : i # j => q[i] # q[j]

\* C1: under any interleaving of handle_custom_message, send_message and
\* get_and_clear_pending_msg, the entries pushed so far are, as multisets,
\* the entries returned by drains so far plus the entries in the queue, each
\* with its peer and message as pushed, and no entry is returned twice.
C1_EnqueuedIsDrainedPlusQueued ==
  /\ SeqToBag(enqueued) = SeqToBag(drained) (+) SeqToBag(msg_q)
  /\ NoRepeat(drained \o msg_q)

\* entries of both producers were pushed, some returned by a drain and some
\* pushed since
C1_Witness ==
  /\ Len(drained) >= 1
  /\ Len(msg_q) >= 1
  /\ drained[1].id[1] # msg_q[1].id[1]

\* C2: get_and_clear_pending_msg returns exactly the queue as it was when
\* the call took the lock and leaves the queue empty when it releases the
\* lock; while it holds the lock no push changes the queue, so an enqueue is
\* wholly in the result or wholly left for the next drain.
C2_DrainIsAtomic ==
  [][pc[Consumer] = "swap" =>
       IF pc'[Consumer] = "swap"
       THEN msg_q' = snap /\ enqueued' = enqueued
       ELSE /\ ret'[Consumer] = Vec(snap)
            /\ msg_q' = << >>
            /\ lock' = NoThread
            /\ enqueued' = drained' \o msg_q']_vars

\* a drain returned an entry while a producer's call was waiting for the
\* lock: that call's entry is left for the next drain
C2_Witness ==
  /\ pc[Consumer] = "idle"
  /\ ret[Consumer].kind = "Vec"
  /\ Len(ret[Consumer].val) >= 1
  /\ msg_q = << >>
  /\ \E t \in Producers : pc[t] = "lock"

\* C3: the entries of one producer leave the queue in the order of that
\* producer's calls: in the drain results put one after the other, followed
\* by what is still queued, an entry of an earlier call of a thread comes
\* before an entry of a later call of the same thread.
C3_PerProducerFifo ==
  LET all == drained \o msg_q IN
    \A i, j \in DOMAIN all :
       (i < j /\ all[i].id[1] = all[j].id[1]) => all[i].id[2] < all[j].id[2]

\* one thread enqueued A and then B, and one drain returned [A, B]
C3_Witness ==
  /\ ret[Consumer].kind = "Vec"
  /\ Len(ret[Consumer].val) = 2
  /\ ret[Consumer].val[1].id[1] = ret[Consumer].val[2].id[1]
  /\ ret[Consumer].val[1].msg # ret[Consumer].val[2].msg

\* C4: a handle_custom_message call whose message is a SubscriptionDetails
\* changes the queue in none of its steps, and returns the dispatcher's
\* error.
C4_FailedCallEnqueuesNothing ==
  [][\A t \in Producers :
       (/\ cur[t].op = "handle_custom_message"
        /\ cur[t].msg.variant = "SubscriptionDetails"
        /\ pc'[t] # pc[t])
       => /\ msg_q' = msg_q
          /\ enqueued' = enqueued
          /\ pc[t] = "dispatch" =>
               /\ pc'[t] = "idle"
               /\ ret'[t].kind = "Err"
               /\ lock' = NoThread]_vars

\* a call returned the error while the queue held an entry
C4_Witness ==
  \E t \in Producers :
     /\ pc[t] = "idle"
     /\ ret[t].kind = "Err"
     /\ Len(msg_q) >= 1

(***************************************************************************)
(* Properties of the dispatcher and of what the calls enqueue.             *)
(***************************************************************************)
\* v is the arithmetic product a * b (the product has no high 32 bits)
IsProduct(v, a, b) == MulFull(a, b).high = Zero32 /\ v = MulFull(a, b).low

Last(q) == q[Len(q)]

\* C5: a handle_custom_message call whose message is a Register from
\* sender S goes from the dispatcher to the push, returns Ok, and its push
\* appends exactly one entry at the end of the queue, the entry
\* (S, SubscriptionDetails{30, slots * period}), leaving the others in place.
C5_RegisterEnqueuesReply ==
  [][\A t \in Producers :
       (/\ cur[t].op = "handle_custom_message"
        /\ cur[t].msg.variant = "Register"
        /\ pc[t] \in {"dispatch", "push"}
        /\ pc'[t] # pc[t])
       => IF pc[t] = "dispatch"
          THEN pc'[t] = "push" /\ msg_q' = msg_q
          ELSE /\ pc'[t] = "idle"
               /\ ret'[t] = Ok("unit")
               /\ Len(msg_q') = Len(msg_q) + 1
               /\ SubSeq(msg_q', 1, Len(msg_q)) = msg_q
               /\ Last(msg_q').peer = cur[t].peer
               /\ Last(msg_q').msg.variant = "SubscriptionDetails"
               /\ Last(msg_q').msg.appointment_max_size = 30
               /\ IsProduct(Last(msg_q').msg.amount_msat,
                            cur[t].msg.appointment_slots,
                            cur[t].msg.subscription_period)]_vars

\* C6: for every Register message, the amount_msat of the reply of
\* handle_tower_message is the arithmetic product
\* appointment_slots * subscription_period.
C6_AmountIsProduct ==
  (d_msg.variant = "Register" /\ d_ret.kind = "Ok")
  => IsProduct(d_ret.val.amount_msat, d_msg.appointment_slots,
               d_msg.subscription_period)

\* C7: handle_tower_message applied to a SubscriptionDetails, whatever its
\* fields, returns an error and no reply; the error has the fixed reason and
\* the action SendWarningMessage, not a disconnect.
C7_SubscriptionDetailsRejected ==
  (d_msg.variant = "SubscriptionDetails" /\ d_ret # NoRet)
  => /\ d_ret.kind = "Err"
     /\ d_ret.val.err = "A SubscriptionDetails message wasn't expected!"
     /\ d_ret.val.action = "SendWarningMessage"
     /\ d_ret.val.action # "DisconnectPeer"

\* a SubscriptionDetails with the largest field values was rejected
C7_Witness ==
  /\ d_msg = SubscriptionDetails(65535, U32(65535, 65535))
  /\ d_ret.kind = "Err"

\* C8: the lock on msg_q is not held while handle_tower_message runs: a
\* thread computing a dispatch does not hold the guard.
C8_LockNotHeldAcrossDispatch ==
  \A t \in Producers : pc[t] = "dispatch" => lock # t

\* C9: no call panics and the Mutex is never poisoned.
C9_NoPanic ==
  /\ ~poisoned
  /\ \A t \in Threads : pc[t] # "panicked"

\* C10: a send_message(peer, msg) call goes from the lock straight to the
\* push, never through the dispatcher, and its push appends exactly the
\* entry (peer, msg) at the end of the queue, for a Register as for a
\* SubscriptionDetails, leaving the entries already queued in place.
C10_SendMessageAppends ==
  [][\A t \in Producers :
       (cur[t].op = "send_message" /\ pc'[t] # pc[t])
       => IF pc[t] = "lock"
          THEN /\ msg_q' = msg_q
               /\ pc'[t] = IF poisoned THEN "panicked" ELSE "push"
          ELSE /\ pc[t] = "push"
               /\ pc'[t] = "idle"
               /\ ret'[t] = Unit
               /\ Len(msg_q') = Len(msg_q) + 1
               /\ SubSeq(msg_q', 1, Len(msg_q)) = msg_q
               /\ Last(msg_q').peer = cur[t].peer
               /\ Last(msg_q').msg = cur[t].msg]_vars

\* a Register and a SubscriptionDetails were both queued as sent, for
\* different peers
C10_Witness ==
  /\ Len(msg_q) = 2
  /\ msg_q[1].msg.variant = "Register"
  /\ msg_q[2].msg = SubscriptionDetails(7, U32(1, 0))
  /\ msg_q[1].peer # msg_q[2].peer

(***************************************************************************)
(* Progress.  Every thread inside a call keeps running, a thread waiting   *)
(* for the lock gets it if it is free again and again, and the consumer    *)
(* keeps calling get_and_clear_pending_msg.  Producers need not call.      *)
(***************************************************************************)
ThreadStep(t) ==
  \/ LockPoisoned(t)
  \/ t \in Producers /\ SendMessageLock(t)
  \/ t \in Producers /\ SendMessagePush(t)
  \/ t \in Producers /\ HandleCustomMessageLock(t)
  \/ t \in Producers /\ HandleCustomMessageDispatchOk(t)
  \/ t \in Producers /\ HandleCustomMessageDispatchErr(t)
  \/ t \in Producers /\ HandleCustomMessageDispatchPanic(t)
  \/ t \in Producers /\ HandleCustomMessagePush(t)
  \/ t = Consumer /\ GetAndClearLock
  \/ t = Consumer /\ GetAndClearSwap

Fairness ==
  /\ \A t \in Threads : SF_vars(ThreadStep(t))
  /\ WF_vars(GetAndClearCall)

SpecFair == Spec /\ Fairness

\* C11: with every thread scheduled fairly and the consumer calling drain
\* again and again, no call waits for the lock forever, every entry that is
\* enqueued is eventually returned by a drain, and some step is always
\* possible.
C11_EveryEntryEventuallyDrained ==
  /\ \A t \in Threads : (pc[t] = "lock") ~> (pc[t] # "lock")
  /\ \A n \in 1..MaxCalls : (Len(enqueued) >= n) ~> (Len(drained) >= n)
  /\ [](ENABLED Next)

(***************************************************************************)
(* Properties of the codec.                                                *)
(***************************************************************************)
WasRead == c_pc \in {"read", "read_tampered"}

\* C12: for every type other than 45768 and 45770 and every buffer, read
\* returns Ok(None), never a DecodeError, and leaves the whole buffer unread.
C12_UnknownTypeIsNone ==
  (WasRead /\ c_type \notin {45768, 45770})
  => /\ c_ret.kind = "Ok"
     /\ c_ret.val = None
     /\ c_ret.rest = c_buf

\* the bytes of a whole Register were read under the type 9999
C12_Witness ==
  /\ WasRead
  /\ c_type = 9999
  /\ c_buf = TowerMessage_write(c_msg)
  /\ Len(c_buf) = 41
  /\ c_ret.kind = "Ok"

\* C13: for the type 45768 and a buffer of fewer than the 41 bytes of a
\* Register, and for the type 45770 and a buffer of fewer than the 6 bytes
\* of a SubscriptionDetails, read returns a DecodeError: neither Ok(None)
\* nor a message.
C13_TruncatedIsDecodeError ==
  (WasRead /\ (\/ c_type = 45768 /\ Len(c_buf) < 41
               \/ c_type = 45770 /\ Len(c_buf) < 6))
  => /\ c_ret.kind = "Err"
     /\ c_ret.val \in {"ShortRead", "InvalidValue"}

\* a Register one byte short was read as a Register
C13_Witness ==
  /\ WasRead
  /\ c_type = 45768
  /\ Len(c_buf) = 40
  /\ c_msg.variant = "Register"
  /\ c_ret.kind = "Err"

\* C14: reading the bytes written for a message, under the message's own
\* type, returns Some of the same message, field by field, and leaves no
\* byte unread, for every Register and every SubscriptionDetails.
C14_RoundTrip ==
  (c_pc = "read")
  => /\ c_ret.kind = "Ok"
     /\ c_ret.val = Some(c_msg)
     /\ c_ret.rest = << >>

\* a Register whose fields all differ made the round trip
C14_Witness ==
  /\ c_pc = "read"
  /\ c_msg = Register("pk2", U32(1, 2), U32(65535, 65535))
  /\ c_ret.kind = "Ok"

\* C15: type_id is 45768 for every Register and 45770 for every
\* SubscriptionDetails, whatever the payload, and read gives a Register
\* only for 45768 and a SubscriptionDetails only for 45770.
C15_TypeIdsStableAndUnique ==
  /\ (c_pc \in {"written", "read"})
     => c_type = IF c_msg.variant = "Register" THEN 45768 ELSE 45770
  /\ (WasRead /\ c_ret.kind = "Ok" /\ c_ret.val.some)
     => /\ c_ret.val.msg.variant = "Register" <=> c_type = 45768
        /\ c_ret.val.msg.variant = "SubscriptionDetails" <=> c_type = 45770

\* the bytes of a Register, read under 45770, gave a SubscriptionDetails
C15_Witness ==
  /\ WasRead
  /\ c_msg.variant = "Register"
  /\ c_type = 45770
  /\ c_ret.kind = "Ok"
  /\ c_ret.val.msg.variant = "SubscriptionDetails"

(***************************************************************************)
(* Further properties of the handler.                                      *)
(***************************************************************************)
\* C16: a get_and_clear_pending_msg with nothing enqueued since the handler
\* was made, or since the drain before it, returns an empty Vec and leaves
\* the queue empty.
C16_EmptyDrainIsNoOp ==
  [][(/\ pc[Consumer] = "swap"
      /\ pc'[Consumer] = "idle"
      /\ Len(enqueued) = Len(drained))
     => /\ ret'[Consumer] = Vec(<< >>)
        /\ msg_q' = << >>
        /\ drained' = drained]_vars

\* a drain returned nothing right after a drain that had returned an entry
C16_Witness ==
  /\ pc[Consumer] = "idle"
  /\ ret[Consumer] = Vec(<< >>)
  /\ Len(drained) >= 1
  /\ Len(enqueued) = Len(drained)

\* C17: what handle_tower_message gives inside handle_custom_message is
\* decided by the variant, appointment_slots and subscription_period alone:
\* it is what the dispatcher gives for every message with the same three,
\* whatever the pubkey in the message, the sender, the queue and the calls
\* made before, and two threads dispatching the same three get the same.
C17_DispatchDependsOnFieldsOnly ==
  /\ \A t \in Producers :
       (pc[t] = "push" /\ cur[t].op = "handle_custom_message")
       => \A m \in DispatchMsgs :
            (/\ m.variant = "Register"
             /\ m.appointment_slots = cur[t].msg.appointment_slots
             /\ m.subscription_period = cur[t].msg.subscription_period)
            => handle_tower_message(m, overflow_checks) = Ok(cur[t].reply)
  /\ \A t \in Producers :
       (pc[t] = "idle" /\ ret[t].kind = "Err")
       => \A m \in DispatchMsgs :
            m.variant = "SubscriptionDetails"
            => handle_tower_message(m, overflow_checks) = ret[t]
  /\ \A t, u \in Producers :
       (/\ pc[t] = "push" /\ cur[t].op = "handle_custom_message"
        /\ pc[u] = "push" /\ cur[u].op = "handle_custom_message"
        /\ cur[t].msg.appointment_slots = cur[u].msg.appointment_slots
        /\ cur[t].msg.subscription_period = cur[u].msg.subscription_period)
       => cur[t].reply = cur[u].reply

\* a Register was dispatched for the sender pk2 while the queue held the
\* reply to the same Register sent before by pk1
C17_Witness ==
  \E t \in Producers :
     /\ pc[t] = "push"
     /\ cur[t].op = "handle_custom_message"
     /\ cur[t].peer = "pk2"
     /\ Len(msg_q) = 1
     /\ msg_q[1].peer = "pk1"
     /\ msg_q[1].msg = cur[t].reply

\* C18: a thread holds the lock only between its lock().unwrap() and the
\* end of its statement: not after a return, an early return with the
\* dispatcher's error or a panic; and when no thread is in such a section,
\* every thread waiting for the lock can go on.
C18_LockReleasedOnEveryExit ==
  /\ \A t \in Threads : pc[t] \in {"idle", "lock", "panicked"} => lock # t
  /\ \A u \in Threads :
       (/\ pc[u] = "lock"
        /\ \A t \in Threads : pc[t] \notin {"dispatch", "push", "swap"})
       => ENABLED ThreadStep(u)

\* after a handle_custom_message returned the error, another thread holds
\* the lock
C18_Witness ==
  \E t \in Producers, u \in Threads :
     /\ t # u
     /\ pc[t] = "idle"
     /\ ret[t].kind = "Err"
     /\ lock = u
     /\ pc[u] \in {"push", "swap"}

====
